---- MODULE Spec2Model ----
(***************************************************************************)
(* The unified cache manager hook (useCacheManager): an in-memory index    *)
(* (a Map in insertion order), a key index (a Set), global hit/miss        *)
(* counters, the configuration state, and the durable store (AsyncStorage) *)
(* holding one record per entry plus the index and configuration records.  *)
(*                                                                         *)
(* Every handler is an operator from a state record to the state it        *)
(* leaves and the value it returns; the actions install that state.  Time  *)
(* is Date.now() in milliseconds counted from the moment the application   *)
(* was first started.                                                      *)
(***************************************************************************)
EXTENDS Integers, Sequences, FiniteSets, TLC

VARIABLES now, config, setMaxSize, timerPersist, isReady, memoryCache, cacheIndex,
          totalHits, totalMisses, store, last, answered, shell, flight, lastSet

vars == <<now, config, setMaxSize, timerPersist, isReady, memoryCache, cacheIndex,
          totalHits, totalMisses, store, last, answered, shell, flight, lastSet>>

----------------------------------------------------------------------------
(* Bounds of the model.                                                    *)

MaxKeys == 1
MaxGets == 2
MaxEvictKeys == 3
MaxSizeKeys == 2
MaxPending == 2
MaxReloads == 4

(* Program constants.                                                      *)

MB == 1048576

CacheTypes ==
  {"html", "api", "product", "category", "image", "script", "style", "resource"}

CACHE_TTL_BY_TYPE ==
  [ty \in CacheTypes |->
     CASE ty = "html"     -> 15 * 60 * 1000
       [] ty = "api"      -> 10 * 60 * 1000
       [] ty = "product"  -> 30 * 60 * 1000
       [] ty = "category" -> 60 * 60 * 1000
       [] ty = "image"    -> 24 * 60 * 60 * 1000
       [] ty = "script"   -> 24 * 60 * 60 * 1000
       [] ty = "style"    -> 24 * 60 * 60 * 1000
       [] ty = "resource" -> 60 * 60 * 1000]

DEFAULT_CONFIG ==
  [enabled |-> TRUE, maxSize |-> 200, maxEntries |-> 1000,
   defaultTTL |-> 30 * 60 * 1000, persistToDisk |-> TRUE]

STORAGE_PREFIX == "@despensallena_cache_"
STORAGE_INDEX == "@despensallena_cache_index"
STORAGE_CONFIG == "@despensallena_cache_config"

----------------------------------------------------------------------------
(* Inputs.  A payload is a string of len characters whose content is named *)
(* by text; Null is the null a get returns for "absent".                   *)

KeyPool == <<"a", "b", "c", "d", "e">>
Keys == {KeyPool[i] : i \in 1..MaxKeys}
EvictKeys == {KeyPool[i] : i \in 1..MaxEvictKeys}
SizeKeys == {KeyPool[i] : i \in 1..MaxSizeKeys}
AllKeys == {KeyPool[i] : i \in 1..Len(KeyPool)}

Null == [text |-> "null", len |-> 0]

(* The undefined a property read yields on a value that lacks the property. *)
Undefined == [text |-> "undefined", len |-> 0]
IsPayload(v) == v \notin {Null, Undefined}
Payloads == {[text |-> "v1", len |-> 10], [text |-> "v2", len |-> 10]}
BigPayloads == {[text |-> "v1", len |-> 200000], [text |-> "big", len |-> 900000]}

LRUPayloads == {[text |-> "v1", len |-> 450000]}

(* customTTL arguments: none, and 0, 5000 and -5000 ms.                    *)
TTLChoices == {<<>>, <<0>>, <<5000>>, <<0 - 5000>>}

NoTTL == <<>>
Instants == {0, 900000, 900001}

getStorageKey(key) == STORAGE_PREFIX \o key

StoreKeys == {getStorageKey(k) : k \in AllKeys} \cup {STORAGE_INDEX, STORAGE_CONFIG}

----------------------------------------------------------------------------
(* JSON.stringify and JSON.parse of the three kinds of record the durable  *)
(* store holds.  The text of a record is the sequence of its fields in the *)
(* order JSON.stringify writes them.                                       *)

Absent == [kind |-> "absent"]

StringifyEntry(e) ==
  [kind |-> "json",
   text |-> <<e.data.text, e.data.len, e.timestamp, e.size, e.type,
              e.expiresAt, e.hits>>]

(* JSON.parse of a record read as a CacheEntry.  The text of another kind  *)
(* of record parses to a value that has none of the fields of an entry.    *)
ParseEntry(j) ==
  IF j.kind = "json"
    THEN [data |-> [text |-> j.text[1], len |-> j.text[2]],
          timestamp |-> j.text[3], size |-> j.text[4], type |-> j.text[5],
          expiresAt |-> j.text[6], hits |-> j.text[7]]
    ELSE [parsed |-> j.kind]

(* Whether a value read as a CacheEntry has the fields of one.             *)
IsEntry(e) == "expiresAt" \in DOMAIN e

StringifyIndex(keys) == [kind |-> "index", keys |-> keys]

StringifyConfig(c) ==
  [kind |-> "config",
   text |-> <<c.enabled, c.maxSize, c.maxEntries, c.defaultTTL, c.persistToDisk>>]

(* JSON.parse of a record read as a CacheConfig.  The text of another kind *)
(* of record parses to a value that has none of the fields of a            *)
(* configuration.                                                          *)
ParseConfig(j) ==
  IF j.kind = "config"
    THEN [enabled |-> j.text[1], maxSize |-> j.text[2], maxEntries |-> j.text[3],
          defaultTTL |-> j.text[4], persistToDisk |-> j.text[5]]
    ELSE [parsed |-> j.kind]

(* Byte size of JSON.stringify(data): the characters and the two quotes.   *)
calculateSize(data) == data.len + 2

----------------------------------------------------------------------------
(* The memory index: a Map, kept as the sequence of its [key, entry] pairs *)
(* in insertion order.                                                     *)

MemKeys(m) == {m[i].key : i \in 1..Len(m)}
MemHas(m, key) == key \in MemKeys(m)
MemPos(m, key) == CHOOSE i \in 1..Len(m) : m[i].key = key
MemGet(m, key) == m[MemPos(m, key)].entry

(* Map.set: an existing key keeps its place, a new key goes last.          *)
MemSet(m, key, e) ==
  IF MemHas(m, key)
    THEN [m EXCEPT ![MemPos(m, key)] = [key |-> key, entry |-> e]]
    ELSE Append(m, [key |-> key, entry |-> e])

(* Map.delete.                                                             *)
MemDelete(m, key) == SelectSeq(m, LAMBDA p : p.key # key)

RECURSIVE SumSizes(_)
SumSizes(m) == IF m = <<>> THEN 0 ELSE Head(m).entry.size + SumSizes(Tail(m))

(* Array.prototype.sort((a, b) => a.hits - b.hits): stable, ascending.     *)
RECURSIVE InsertByHits(_, _)
InsertByHits(sorted, p) ==
  IF sorted = <<>> THEN <<p>>
  ELSE IF Head(sorted).entry.hits <= p.entry.hits
    THEN <<Head(sorted)>> \o InsertByHits(Tail(sorted), p)
    ELSE <<p>> \o sorted

(* Variant: the snapshot is left in insertion order.                       *)
SortByHits_Unsorted(m) == m

RECURSIVE SortByHits(_)
SortByHits(m) ==
  IF m = <<>> THEN <<>>
  ELSE InsertByHits(SortByHits(SubSeq(m, 1, Len(m) - 1)), m[Len(m)])

----------------------------------------------------------------------------
(* The handlers.  s is the record of the program's state (the fields are   *)
(* the variables of the module); each handler yields the state it leaves   *)
(* in st and what it returns in result.                                    *)

(* Variant: the expiry test is late by one millisecond.                    *)
Expired_LateByOne(s, entry) == s.now > entry.expiresAt + 1

(* Date.now() > entry.expiresAt; false when expiresAt is undefined.        *)
Expired(s, entry) == IsEntry(entry) /\ s.now > entry.expiresAt

(* Variant: a hit also pushes the expiry of the entry back.                *)
Hit_Renews(entry) ==
  IF IsEntry(entry)
    THEN [entry EXCEPT !.hits = @ + 1, !.expiresAt = @ + 1]
    ELSE entry

(* entry.hits++ (on a value without hits the field becomes NaN, which the  *)
(* model leaves out) and entry.data.                                       *)
Hit(entry) == IF IsEntry(entry) THEN [entry EXCEPT !.hits = @ + 1] ELSE entry
DataOf(entry) == IF IsEntry(entry) THEN entry.data ELSE Undefined

(* Variant: remove forgets memoryCache.delete.                             *)
remove_KeepsMemory(s, key) ==
  LET idx == s.cacheIndex \ {key}
      st1 == [s EXCEPT !.cacheIndex = idx]
      st2 == IF s.config.persistToDisk
               THEN [st1 EXCEPT !.store =
                       [[@ EXCEPT ![getStorageKey(key)] = Absent]
                           EXCEPT ![STORAGE_INDEX] = StringifyIndex(idx)]]
               ELSE st1
  IN  [st |-> st2, result |-> TRUE]

(* remove: delete from the memory index and the key index; when persisting *)
(* remove the entry record and rewrite the index record.                   *)
remove(s, key) ==
  LET idx == s.cacheIndex \ {key}
      st1 == [s EXCEPT !.memoryCache = MemDelete(@, key), !.cacheIndex = idx]
      st2 == IF s.config.persistToDisk
               THEN [st1 EXCEPT !.store =
                       [[@ EXCEPT ![getStorageKey(key)] = Absent]
                           EXCEPT ![STORAGE_INDEX] = StringifyIndex(idx)]]
               ELSE st1
  IN  [st |-> st2, result |-> TRUE]

(* get, past the kill switch: memory first, then the durable store when    *)
(* the key index knows the key; an expired entry is removed and counts as  *)
(* a miss.                                                                 *)
getEnabled(s, key) ==
  IF MemHas(s.memoryCache, key) THEN
    LET entry == MemGet(s.memoryCache, key) IN
    IF Expired(s, entry)
      THEN [st |-> [remove(s, key).st EXCEPT !.totalMisses = @ + 1],
            result |-> Null, how |-> "expired-memory"]
      ELSE [st |-> [s EXCEPT
                      !.memoryCache = MemSet(@, key, Hit(entry)),
                      !.totalHits = @ + 1],
            result |-> DataOf(entry), how |-> "memory"]
  ELSE IF /\ s.config.persistToDisk
          /\ key \in s.cacheIndex
          /\ s.store[getStorageKey(key)] # Absent THEN
    LET entry == ParseEntry(s.store[getStorageKey(key)]) IN
    IF Expired(s, entry)
      THEN [st |-> [remove(s, key).st EXCEPT !.totalMisses = @ + 1],
            result |-> Null, how |-> "expired-disk"]
      ELSE [st |-> [s EXCEPT
                      !.memoryCache = MemSet(@, key, Hit(entry)),
                      !.totalHits = @ + 1],
            result |-> DataOf(entry), how |-> "disk"]
  ELSE [st |-> [s EXCEPT !.totalMisses = @ + 1], result |-> Null, how |-> "miss"]

(* Variant: get without the kill switch.                                   *)
get_IgnoresSwitch(s, key) == getEnabled(s, key)

get(s, key) ==
  IF ~s.config.enabled
    THEN [st |-> s, result |-> Null, how |-> "disabled"]
    ELSE getEnabled(s, key)

(* get when the durable store's getItem rejects (or JSON.parse throws on   *)
(* what it returned): the catch block returns null.  A get that does not   *)
(* reach getItem is the get above.                                         *)
getReadFails(s, key) ==
  IF /\ s.config.enabled
     /\ ~MemHas(s.memoryCache, key)
     /\ s.config.persistToDisk
     /\ key \in s.cacheIndex
    THEN [st |-> s, result |-> Null, how |-> "error"]
    ELSE get(s, key)

(* (totalHits / (totalHits + totalMisses)) * 100, or 0 when no get was     *)
(* counted, as the fraction num / den.                                     *)
HitRate(hits, misses) ==
  IF hits + misses > 0
    THEN [num |-> hits * 100, den |-> hits + misses]
    ELSE [num |-> 0, den |-> 1]

(* getStats has no try block: byType[entry.type].count++ throws a          *)
(* TypeError when the type of a memory entry is not one of the eight.      *)
getStatsThrows(s) ==
  \E i \in 1..Len(s.memoryCache) :
    LET e == s.memoryCache[i].entry
    IN  ~IsEntry(e) \/ e.type \notin CacheTypes

(* Variant: the scan counts the entries of a type and forgets their sizes. *)
ByType_Unsized(m) ==
  [ty \in CacheTypes |->
     [count |-> Len(SelectSeq(m, LAMBDA p : p.entry.type = ty)), size |-> 0]]

(* The per-type map getStats builds: all eight types from zero, then count *)
(* and size (bytes) raised by each entry of the type.                      *)
ByType(m) ==
  [ty \in CacheTypes |->
     [count |-> Len(SelectSeq(m, LAMBDA p : p.entry.type = ty)),
      size |-> SumSizes(SelectSeq(m, LAMBDA p : p.entry.type = ty))]]

(* getStats: a scan of the memory index.  totalBytes is the sum of the     *)
(* entry sizes; the totalSize returned is totalBytes / (1024 * 1024), kept *)
(* as the fraction num / den.                                              *)
getStats(s) ==
  LET m == s.memoryCache
  IN  [totalEntries |-> Len(m),
       totalBytes |-> SumSizes(m),
       totalSize |-> [num |-> SumSizes(m), den |-> MB],
       hits |-> s.totalHits,
       misses |-> s.totalMisses,
       hitRate |-> HitRate(s.totalHits, s.totalMisses),
       byType |-> ByType(m)]

(* Variant: the size pass stops at maxSize instead of 80% of it.           *)
RECURSIVE SizePass_ToMax(_, _, _, _, _)
SizePass_ToMax(s, entries, total, removed, maxSize) ==
  IF entries = <<>> THEN s
  ELSE IF total - removed <= maxSize * MB THEN s
  ELSE SizePass_ToMax(remove(s, Head(entries).key).st, Tail(entries), total,
                      removed + Head(entries).entry.size, maxSize)

(* The size pass of optimize: entries is what is left of the snapshot      *)
(* sorted by hits, total the bytes getStats counted, removed the bytes     *)
(* removed so far.  totalSize - removedSize/MB <= maxSize * 0.8, with both *)
(* sides multiplied by 5 * MB.                                             *)
RECURSIVE SizePass(_, _, _, _, _)
SizePass(s, entries, total, removed, maxSize) ==
  IF entries = <<>> THEN s
  ELSE IF 5 * (total - removed) <= 4 * maxSize * MB THEN s
  ELSE SizePass(remove(s, Head(entries).key).st, Tail(entries), total,
                removed + Head(entries).entry.size, maxSize)

RECURSIVE RemoveFirst(_, _, _)
RemoveFirst(s, entries, n) ==
  IF n <= 0 THEN s
  ELSE RemoveFirst(remove(s, Head(entries).key).st, Tail(entries), n - 1)

(* Variant: the count pass stops at maxEntries instead of 80% of it.       *)
CountPass_ToMax(s, maxEntries) ==
  IF Len(s.memoryCache) > maxEntries
    THEN RemoveFirst(s, SortByHits(s.memoryCache), Len(s.memoryCache) - maxEntries)
    ELSE s

(* The count pass: remove size - floor(maxEntries * 0.8) entries, lowest   *)
(* hits first.                                                             *)
CountPass(s, maxEntries) ==
  IF Len(s.memoryCache) > maxEntries
    THEN RemoveFirst(s, SortByHits(s.memoryCache),
                     Len(s.memoryCache) - ((maxEntries * 4) \div 5))
    ELSE s

(* Variant: optimize trims whenever the memory index is above the 80%      *)
(* targets, not only above the budgets.                                    *)
optimize_ToTarget(s, maxSize, maxEntries) ==
  LET stats == getStats(s)
      st1 == IF 5 * stats.totalBytes > 4 * maxSize * MB
               THEN SizePass(s, SortByHits(s.memoryCache), stats.totalBytes, 0, maxSize)
               ELSE s
  IN  [st |-> IF Len(st1.memoryCache) > (maxEntries * 4) \div 5
                THEN RemoveFirst(st1, SortByHits(st1.memoryCache),
                                 Len(st1.memoryCache) - ((maxEntries * 4) \div 5))
                ELSE st1]

(* optimize with the maxSize and maxEntries its closure holds.             *)
optimize(s, maxSize, maxEntries) ==
  LET stats == getStats(s)
      st1 == IF stats.totalBytes > maxSize * MB
               THEN SizePass(s, SortByHits(s.memoryCache), stats.totalBytes, 0, maxSize)
               ELSE s
  IN  [st |-> CountPass(st1, maxEntries)]

(* Variant: config.defaultTTL is tried before the per-type table.          *)
TTLFor_DefaultFirst(type, customTTL, cfg) ==
  IF customTTL # NoTTL /\ customTTL[1] # 0 THEN customTTL[1]
  ELSE IF cfg.defaultTTL # 0 THEN cfg.defaultTTL
  ELSE CACHE_TTL_BY_TYPE[type]

(* customTTL || CACHE_TTL_BY_TYPE[type] || config.defaultTTL; customTTL is *)
(* NoTTL when the caller gave none, <<c>> when the caller gave c.          *)
TTLFor(type, customTTL, cfg) ==
  IF customTTL # NoTTL /\ customTTL[1] # 0 THEN customTTL[1]
  ELSE IF CACHE_TTL_BY_TYPE[type] # 0 THEN CACHE_TTL_BY_TYPE[type]
  ELSE cfg.defaultTTL

(* The entry set builds.                                                   *)
NewEntry(s, data, type, customTTL) ==
  [data |-> data, timestamp |-> s.now, size |-> calculateSize(data),
   type |-> type, expiresAt |-> s.now + TTLFor(type, customTTL, s.config),
   hits |-> 0]

(* set: memory index and key index, then the entry record and the index    *)
(* record when persisting, then optimize if the count passed maxEntries.   *)
(* The optimize that set calls is the one of the render that created set:  *)
(* its maxSize is s.setMaxSize.                                            *)
set(s, key, data, type, customTTL) ==
  IF ~s.config.enabled THEN [st |-> s, result |-> FALSE]
  ELSE
    LET entry == NewEntry(s, data, type, customTTL)
        idx == s.cacheIndex \cup {key}
        st1 == [s EXCEPT !.memoryCache = MemSet(@, key, entry), !.cacheIndex = idx]
        st2 == IF s.config.persistToDisk
                 THEN [st1 EXCEPT !.store =
                         [[@ EXCEPT ![getStorageKey(key)] = StringifyEntry(entry)]
                             EXCEPT ![STORAGE_INDEX] = StringifyIndex(idx)]]
                 ELSE st1
        st3 == IF Len(st2.memoryCache) > s.config.maxEntries
                 THEN optimize(st2, s.setMaxSize, s.config.maxEntries).st
                 ELSE st2
    IN  [st |-> st3, result |-> TRUE]

(* set when a setItem of the durable store rejects: at "entry" the write   *)
(* of the entry record, at "index" the write of the index record after it. *)
(* The catch block returns false; the entry stays in the memory index and  *)
(* the key index, and the maxEntries check is not reached.  A set that     *)
(* does not write is the set above.                                        *)
setWriteFails(s, key, data, type, customTTL, at) ==
  IF ~s.config.enabled \/ ~s.config.persistToDisk
    THEN set(s, key, data, type, customTTL)
    ELSE
      LET entry == NewEntry(s, data, type, customTTL)
          idx == s.cacheIndex \cup {key}
          st1 == [s EXCEPT !.memoryCache = MemSet(@, key, entry), !.cacheIndex = idx]
          st2 == IF at = "index"
                   THEN [st1 EXCEPT !.store[getStorageKey(key)] = StringifyEntry(entry)]
                   ELSE st1
      IN  [st |-> st2, result |-> FALSE]

(* The part of one set of setMultiple that runs before its first await     *)
(* returns: the entry in the memory index and the key index and, when      *)
(* persisting, the write of the entry record, which rejects when fail is   *)
(* "entry".                                                                *)
setAdd(s, e, fail) ==
  LET entry == NewEntry(s, e.data, e.type, NoTTL)
      st1 == [s EXCEPT !.memoryCache = MemSet(@, e.key, entry),
                       !.cacheIndex = @ \cup {e.key}]
  IN  IF s.config.persistToDisk /\ fail # "entry"
        THEN [st1 EXCEPT !.store[getStorageKey(e.key)] = StringifyEntry(entry)]
        ELSE st1

RECURSIVE setAdds(_, _, _)
setAdds(s, entries, fails) ==
  IF entries = <<>> THEN s
  ELSE setAdds(setAdd(s, Head(entries), Head(fails)), Tail(entries), Tail(fails))

(* The maxEntries check of each set of setMultiple that reached it.        *)
RECURSIVE setChecks(_, _)
setChecks(s, fails) ==
  IF fails = <<>> THEN s
  ELSE setChecks(IF Head(fails) = "none" /\ Len(s.memoryCache) > s.config.maxEntries
                   THEN optimize(s, s.setMaxSize, s.config.maxEntries).st
                   ELSE s,
                 Tail(fails))

RECURSIVE setEach(_, _)
setEach(s, entries) ==
  IF entries = <<>> THEN s
  ELSE LET e == Head(entries)
       IN  setEach(set(s, e.key, e.data, e.type, NoTTL).st, Tail(entries))

(* What setMultiple returns from the values its sets resolved to: set      *)
(* catches every error and resolves to false, so Promise.all resolves, its *)
(* array is dropped and the try block returns true.                        *)
setMultipleResult(each) == TRUE

(* setMultiple: Promise.all over one set per entry, all started in the     *)
(* same turn.  fails[i] says where the durable store rejects the i-th set: *)
(* "none", "entry" or "index".  When persisting, every set adds its entry  *)
(* and issues its entry write before any of them resumes; then the sets    *)
(* whose entry write was accepted write the index record, and those whose  *)
(* index write was accepted reach the maxEntries check.  Without           *)
(* persistence a set has no await before its check and the sets run one    *)
(* after the other.  each is what the sets returned.                       *)
setMultiple(s, entries, fails) ==
  IF ~s.config.enabled
    THEN [st |-> s, each |-> [i \in 1..Len(entries) |-> FALSE],
          result |-> setMultipleResult([i \in 1..Len(entries) |-> FALSE])]
  ELSE IF ~s.config.persistToDisk
    THEN [st |-> setEach(s, entries), each |-> [i \in 1..Len(entries) |-> TRUE],
          result |-> setMultipleResult([i \in 1..Len(entries) |-> TRUE])]
  ELSE
    LET st1 == setAdds(s, entries, fails)
        st2 == IF \E i \in 1..Len(fails) : fails[i] = "none"
                 THEN [st1 EXCEPT !.store[STORAGE_INDEX] = StringifyIndex(st1.cacheIndex)]
                 ELSE st1
        each == [i \in 1..Len(entries) |-> fails[i] = "none"]
    IN  [st |-> setChecks(st2, fails), each |-> each,
         result |-> setMultipleResult(each)]

(* Variant: has looks at the expiry of the memory entry.                   *)
has_ChecksExpiry(s, key) ==
  \/ MemHas(s.memoryCache, key) /\ ~Expired(s, MemGet(s.memoryCache, key))
  \/ ~MemHas(s.memoryCache, key) /\ key \in s.cacheIndex

has(s, key) == MemHas(s.memoryCache, key) \/ key \in s.cacheIndex

RECURSIVE RemoveAll(_, _)
RemoveAll(s, keys) ==
  IF keys = <<>> THEN s ELSE RemoveAll(remove(s, Head(keys)).st, Tail(keys))

KeysOf(m) == [i \in 1..Len(m) |-> m[i].key]

(* Variant: prune removes the entries created before now.                  *)
prune_ByTimestamp(s) ==
  LET expired == SelectSeq(s.memoryCache, LAMBDA p : s.now > p.entry.timestamp)
  IN  [st |-> RemoveAll(s, KeysOf(expired)), result |-> Len(expired)]

(* prune: remove the memory entries that have expired; their number.       *)
prune(s) ==
  LET expired == SelectSeq(s.memoryCache, LAMBDA p : s.now > p.entry.expiresAt)
  IN  [st |-> RemoveAll(s, KeysOf(expired)), result |-> Len(expired)]

(* Variant: clear(type) removes the memory entries of every type.          *)
clearType_EveryType(s, type) ==
  [st |-> RemoveAll(s, KeysOf(s.memoryCache))]

(* clear(type): remove the memory entries of that type.                    *)
clearType(s, type) ==
  [st |-> RemoveAll(s, KeysOf(SelectSeq(s.memoryCache, LAMBDA p : p.entry.type = type)))]

(* clear(): empty the memory index, remove every durable record whose key  *)
(* starts with the prefix and the index record, reset the counters.        *)
HasPrefix(storageKey) == storageKey \in {STORAGE_PREFIX \o x : x \in AllKeys \cup {"index", "config"}}

clearAll(s) ==
  [st |-> [s EXCEPT
             !.memoryCache = <<>>,
             !.store = IF s.config.persistToDisk
                         THEN [sk \in StoreKeys |->
                                 IF HasPrefix(sk) \/ sk = STORAGE_INDEX
                                   THEN Absent ELSE s.store[sk]]
                         ELSE @,
             !.cacheIndex = {},
             !.totalHits = 0,
             !.totalMisses = 0]]

(* A render after the configuration changed: useCallback re-creates set    *)
(* only when one of its dependencies changed, and maxSize is not one.      *)
SetClosure(old, new, held) ==
  IF <<old.enabled, old.persistToDisk, old.defaultTTL, old.maxEntries>> #
     <<new.enabled, new.persistToDisk, new.defaultTTL, new.maxEntries>>
    THEN new.maxSize
    ELSE held

(* The cleanup effect is re-created only when config.enabled changed: the  *)
(* prune its interval calls removes with the persistToDisk of that render. *)
TimerClosure(old, new, held) ==
  IF old.enabled # new.enabled THEN new.persistToDisk ELSE held

(* The callback of the 5-minute interval: prune when the cache is enabled. *)
cleanup(s) ==
  IF ~s.config.enabled THEN [st |-> s, result |-> 0]
  ELSE
    LET p == prune([s EXCEPT !.config.persistToDisk = s.timerPersist])
    IN  [st |-> [p.st EXCEPT !.config = s.config], result |-> p.result]

(* { ...base, ...partial }: the fields of partial over those of base.      *)
Merge(base, partial) ==
  [f \in DOMAIN base |-> IF f \in DOMAIN partial THEN partial[f] ELSE base[f]]

(* Variant: updateConfig persists the configuration it replaced.           *)
updateConfigWith_PersistsPrevious(s, partial) ==
  LET updated == Merge(s.config, partial)
  IN  [st |-> [s EXCEPT
                 !.config = updated,
                 !.setMaxSize = SetClosure(s.config, updated, @),
                 !.timerPersist = TimerClosure(s.config, updated, @),
                 !.store = [@ EXCEPT ![STORAGE_CONFIG] = StringifyConfig(s.config)]]]

(* updateConfig(partial): merge, persist the merged record.                *)
updateConfigWith(s, partial) ==
  LET updated == Merge(s.config, partial)
  IN  [st |-> [s EXCEPT
                 !.config = updated,
                 !.setMaxSize = SetClosure(s.config, updated, @),
                 !.timerPersist = TimerClosure(s.config, updated, @),
                 !.store = [@ EXCEPT ![STORAGE_CONFIG] = StringifyConfig(updated)]]]

(* updateConfig({field: value}).                                           *)
updateConfig(s, field, value) == updateConfigWith(s, field :> value)

(* The hook is mounted: fresh refs and state, the durable store as it was. *)
mount(s) ==
  [st |-> [s EXCEPT
             !.config = DEFAULT_CONFIG,
             !.setMaxSize = DEFAULT_CONFIG.maxSize,
             !.timerPersist = DEFAULT_CONFIG.persistToDisk,
             !.isReady = FALSE,
             !.memoryCache = <<>>,
             !.cacheIndex = {},
             !.totalHits = 0,
             !.totalMisses = 0]]

(* Variant: the catch block of initializeCache logs and leaves isReady as  *)
(* it was.                                                                 *)
initializeCacheFails_NotReady(s, at) ==
  [st |-> IF at = "config" /\ s.store[STORAGE_INDEX] # Absent
            THEN [s EXCEPT !.cacheIndex = @ \cup s.store[STORAGE_INDEX].keys]
            ELSE s]

(* initializeCache when a getItem rejects or a JSON.parse throws: at       *)
(* "index" on the index record, at "config" on the configuration record    *)
(* after the index was loaded.  The catch block logs and sets isReady;     *)
(* setConfig is not reached.                                               *)
initializeCacheFails(s, at) ==
  LET idx == IF at = "config" /\ s.store[STORAGE_INDEX] # Absent
               THEN s.cacheIndex \cup s.store[STORAGE_INDEX].keys
               ELSE s.cacheIndex
  IN  [st |-> [s EXCEPT !.cacheIndex = idx, !.isReady = TRUE]]

(* initializeCache: add the persisted index to the key index, load the     *)
(* persisted configuration over the defaults, become ready.                *)
initializeCache(s) ==
  LET idx == IF s.store[STORAGE_INDEX] # Absent
               THEN s.cacheIndex \cup s.store[STORAGE_INDEX].keys
               ELSE s.cacheIndex
      cfg == IF s.store[STORAGE_CONFIG] # Absent
               THEN Merge(DEFAULT_CONFIG, ParseConfig(s.store[STORAGE_CONFIG]))
               ELSE s.config
  IN  [st |-> [s EXCEPT
                 !.cacheIndex = idx,
                 !.config = cfg,
                 !.setMaxSize = SetClosure(s.config, cfg, @),
                 !.timerPersist = TimerClosure(s.config, cfg, @),
                 !.isReady = TRUE]]

----------------------------------------------------------------------------
(* The handlers cut at their awaits.  Every handler is an async function:  *)
(* it runs from one await to the next without interruption, and between    *)
(* two of its steps the steps of other calls may run.  The durable store   *)
(* serves its requests in the order they are issued, so a request takes    *)
(* effect (a write) or takes its value (a read) when it is issued, and the *)
(* call that awaits it resumes later.                                      *)
(*                                                                         *)
(* A frame is a call in flight:                                            *)
(*   op     the call: "get", "set", "prune", "optimize"; "idle" for none   *)
(*   pc     the await the call is suspended on                             *)
(*   key    the key of the call, or the key whose remove is in progress    *)
(*   read   what getItem read for a get                                    *)
(*   pass   the loop of removes the call is in: "prune", "size", "count"   *)
(*   todo   what is left of the list of keys that loop took, with the      *)
(*          sizes the snapshot holds                                       *)
(*   total  stats.totalSize in bytes (optimize), expiredKeys.length (prune)*)
(*   removed   removedSize of the size pass                                *)
(*   rewritten the keys among key and todo that a set has written since    *)
(*             the call took them (observation only; no handler reads it)  *)
(* lastSet (observation only) is the payload each key was last set to by   *)
(* such a call, "" when none was or when a remove of the key has returned  *)
(* with no set of the key since it started.                                *)

Callers == {"p", "q"}

Idle ==
  [op |-> "idle", pc |-> "", key |-> "", read |-> Absent, pass |-> "",
   todo |-> <<>>, total |-> 0, removed |-> 0, rewritten |-> {}]

AllIdle == [c \in Callers |-> Idle]

Frame(op, pc, key) == [Idle EXCEPT !.op = op, !.pc = pc, !.key = key]

(* The call returns result.                                                *)
Done(s, result) == [st |-> s, frame |-> Idle, result |-> result]

(* The call is suspended.                                                  *)
Suspended(s, f) == [st |-> s, frame |-> f, result |-> Null]

Snapshot(m) == [i \in 1..Len(m) |-> [key |-> m[i].key, size |-> m[i].entry.size]]

(* setItem(STORAGE_KEYS.INDEX, JSON.stringify(Array.from(cacheIndex))).    *)
writeIndex(s) == [s EXCEPT !.store[STORAGE_INDEX] = StringifyIndex(s.cacheIndex)]

(* remove(key) called by the call f, up to its first await: the memory     *)
(* index and the key index lose the key and, when persisting, removeItem   *)
(* is issued; otherwise remove returns and f awaits what it returned.      *)
callRemove(s, f, key) ==
  LET st1 == [s EXCEPT !.memoryCache = MemDelete(@, key),
                       !.cacheIndex = @ \ {key}]
  IN  IF s.config.persistToDisk
        THEN Suspended([st1 EXCEPT !.store[getStorageKey(key)] = Absent],
                       [f EXCEPT !.pc = "removeItem", !.key = key])
        ELSE Suspended(st1, [f EXCEPT !.pc = "removed", !.key = key])

(* get up to its first await.                                              *)
getBegin(s, key) ==
  IF ~s.config.enabled THEN Done(s, Null)
  ELSE IF MemHas(s.memoryCache, key) THEN
    LET entry == MemGet(s.memoryCache, key) IN
    IF Expired(s, entry)
      THEN callRemove(s, Frame("get", "", key), key)
      ELSE Done([s EXCEPT !.memoryCache = MemSet(@, key, Hit(entry)),
                          !.totalHits = @ + 1],
                DataOf(entry))
  ELSE IF s.config.persistToDisk /\ key \in s.cacheIndex THEN
    Suspended(s, [Frame("get", "getItem", key) EXCEPT
                    !.read = s.store[getStorageKey(key)]])
  ELSE Done([s EXCEPT !.totalMisses = @ + 1], Null)

(* get after getItem: the entry read is put into the memory index.         *)
getRead(s, f) ==
  IF f.read # Absent THEN
    LET entry == ParseEntry(f.read) IN
    IF Expired(s, entry)
      THEN callRemove(s, f, f.key)
      ELSE Done([s EXCEPT !.memoryCache = MemSet(@, f.key, Hit(entry)),
                          !.totalHits = @ + 1],
                DataOf(entry))
  ELSE Done([s EXCEPT !.totalMisses = @ + 1], Null)

(* The loop of prune.                                                      *)
pruneLoop(s, f) ==
  IF f.todo = <<>> THEN Done(s, f.total)
  ELSE callRemove(s, [f EXCEPT !.todo = Tail(@)], Head(f.todo).key)

(* prune up to its first await: the scan and the first remove.             *)
pruneBegin(s) ==
  LET expired == SelectSeq(s.memoryCache, LAMBDA p : s.now > p.entry.expiresAt)
  IN  pruneLoop(s, [Frame("prune", "", "") EXCEPT
                      !.pass = "prune", !.todo = Snapshot(expired),
                      !.total = Len(expired)])

(* The maxSize the optimize of the call f holds: the one of set's closure  *)
(* when set called it.                                                     *)
MaxSizeOf(s, f) == IF f.op = "set" THEN s.setMaxSize ELSE s.config.maxSize

(* The loop of the count pass.                                             *)
countLoop(s, f) ==
  IF f.todo = <<>> THEN Done(s, TRUE)
  ELSE callRemove(s, [f EXCEPT !.todo = Tail(@)], Head(f.todo).key)

(* The count pass: its snapshot, and its first remove.                     *)
countBegin(s, f) ==
  IF Len(s.memoryCache) > s.config.maxEntries
    THEN countLoop(s, [f EXCEPT
           !.pass = "count",
           !.todo = SubSeq(Snapshot(SortByHits(s.memoryCache)), 1,
                           Len(s.memoryCache) - ((s.config.maxEntries * 4) \div 5))])
    ELSE Done(s, TRUE)

(* The loop of the size pass.                                              *)
sizeLoop(s, f) ==
  IF f.todo = <<>> \/ 5 * (f.total - f.removed) <= 4 * MaxSizeOf(s, f) * MB
    THEN countBegin(s, f)
    ELSE callRemove(s, [f EXCEPT !.todo = Tail(@),
                                 !.removed = @ + Head(f.todo).size],
                    Head(f.todo).key)

(* optimize after getStats.                                                *)
optimizeStats(s, f) ==
  IF f.total > MaxSizeOf(s, f) * MB
    THEN sizeLoop(s, [f EXCEPT !.pass = "size",
                               !.todo = Snapshot(SortByHits(s.memoryCache))])
    ELSE countBegin(s, f)

(* optimize up to its first await: getStats has counted the bytes.         *)
optimizeBegin(s, f) ==
  Suspended(s, [f EXCEPT !.pc = "getStats", !.total = SumSizes(s.memoryCache)])

(* set after its writes: optimize if the count passed maxEntries.          *)
setCheck(s, f) ==
  IF Len(s.memoryCache) > s.config.maxEntries
    THEN optimizeBegin(s, f)
    ELSE Done(s, TRUE)

(* set up to its first await.                                              *)
setBegin(s, key, data, type, customTTL) ==
  IF ~s.config.enabled THEN Done(s, FALSE)
  ELSE
    LET entry == NewEntry(s, data, type, customTTL)
        st1 == [s EXCEPT !.memoryCache = MemSet(@, key, entry),
                         !.cacheIndex = @ \cup {key}]
    IN  IF s.config.persistToDisk
          THEN Suspended([st1 EXCEPT !.store[getStorageKey(key)] =
                                       StringifyEntry(entry)],
                         Frame("set", "setItem", key))
          ELSE setCheck(st1, Frame("set", "", key))

(* What follows a remove that has returned.                                *)
afterRemove(s, f) ==
  CASE f.op = "get" -> Done([s EXCEPT !.totalMisses = @ + 1], Null)
    [] f.op = "remove" -> Done(s, TRUE)
    [] f.pass = "prune" -> pruneLoop(s, f)
    [] f.pass = "size" -> sizeLoop(s, f)
    [] f.pass = "count" -> countLoop(s, f)

(* The call f resumes from the await it is suspended on and runs to its    *)
(* next await or to its return.                                            *)
resume(s, f) ==
  CASE f.pc = "getItem" -> getRead(s, f)
    [] f.pc = "setItem" -> Suspended(writeIndex(s), [f EXCEPT !.pc = "setIndex"])
    [] f.pc = "setIndex" -> setCheck(s, f)
    [] f.pc = "getStats" -> optimizeStats(s, f)
    [] f.pc = "removeItem" -> Suspended(writeIndex(s), [f EXCEPT !.pc = "removed"])
    [] f.pc = "removed" -> afterRemove(s, f)

----------------------------------------------------------------------------
(* The page shell (OptimizedWebView): its loading indicator with the 30 s  *)
(* loading timeout, and its retries after a load error.  sh is the record  *)
(* of the component's state:                                               *)
(*   loading, showProgress, hasError, retryCount   the useState values     *)
(*   isConnected, isInternetReachable              from useNetworkStatus   *)
(*   timers             the loading timeouts that are pending (their ids)  *)
(*   loadingTimeoutRef  the id loadingTimeoutRef holds, 0 for null         *)
(*   retries            the delays of the retry timeouts that are pending  *)
(*   retryReloads       reloads made by retry timeouts since the last load *)
(*                      end (observation only)                             *)
(*   reported           whether onError was called since the last load end *)
(*                      (observation only)                                 *)

RETRY_BASE_DELAY == 2000
MAX_RETRIES == 3

TimerIds == 1..3

ShellInit ==
  [loading |-> TRUE, showProgress |-> FALSE, hasError |-> FALSE, retryCount |-> 0,
   isConnected |-> TRUE, isInternetReachable |-> TRUE,
   timers |-> {}, loadingTimeoutRef |-> 0,
   retries |-> <<>>, retryReloads |-> 0, reported |-> FALSE]

RECURSIVE Pow2(_)
Pow2(n) == IF n = 0 THEN 1 ELSE 2 * Pow2(n - 1)

clearLoadingTimeout(sh) ==
  IF sh.loadingTimeoutRef # 0
    THEN [sh EXCEPT !.timers = @ \ {sh.loadingTimeoutRef}, !.loadingTimeoutRef = 0]
    ELSE sh

(* setTimeout returns an id no pending timer has and the ref does not hold. *)
NewTimer(sh) == CHOOSE id \in TimerIds : id \notin sh.timers /\ id # sh.loadingTimeoutRef

(* Variant: the pending timeout is not cleared before a new one is set.    *)
startLoadingTimeout_NoClear(sh) ==
  LET id == NewTimer(sh)
  IN  [sh EXCEPT !.timers = @ \cup {id}, !.loadingTimeoutRef = id]

startLoadingTimeout(sh) ==
  LET c == clearLoadingTimeout(sh)
      id == NewTimer(c)
  IN  [c EXCEPT !.timers = @ \cup {id}, !.loadingTimeoutRef = id]

(* The callback of the loading timeout.                                    *)
loadingTimeout(sh, id) ==
  [sh EXCEPT !.timers = @ \ {id}, !.loading = FALSE, !.showProgress = FALSE]

handleLoadStart(sh) ==
  startLoadingTimeout([sh EXCEPT !.loading = TRUE, !.showProgress = TRUE,
                                 !.hasError = FALSE])

handleLoadEnd(sh) ==
  [clearLoadingTimeout(sh) EXCEPT !.loading = FALSE, !.showProgress = FALSE,
                                  !.retryCount = 0,
                                  !.retryReloads = 0, !.reported = FALSE]

(* handleError: hide the indicator; schedule a reload after 2 s, 4 s, 8 s  *)
(* while retryCount < 3 and connected, else call onError.                  *)
handleError(sh) ==
  LET c == [clearLoadingTimeout(sh) EXCEPT !.loading = FALSE, !.showProgress = FALSE,
                                           !.hasError = TRUE]
  IN  IF sh.retryCount < MAX_RETRIES /\ sh.isConnected
        THEN [c EXCEPT !.retries = Append(@, RETRY_BASE_DELAY * Pow2(sh.retryCount))]
        ELSE [c EXCEPT !.reported = TRUE]

(* The callback of the i-th pending retry timeout: count and reload.       *)
retryTimeout(sh, i) ==
  [sh EXCEPT !.retries = SubSeq(@, 1, i - 1) \o SubSeq(@, i + 1, Len(@)),
             !.retryCount = @ + 1,
             !.retryReloads = @ + 1]

(* handleMessage, link_clicked, and the main-frame branch of               *)
(* onShouldStartLoadWithRequest: show the indicator, restart the timeout.  *)
showIndicator(sh) ==
  startLoadingTimeout([sh EXCEPT !.loading = TRUE, !.showProgress = TRUE])

handleRetry(sh) ==
  [sh EXCEPT !.hasError = FALSE, !.retryCount = 0, !.retryReloads = 0,
             !.reported = FALSE]

(* The network effect, run after a render in which isConnected,            *)
(* isInternetReachable or hasError changed, until they change no more.     *)
NetworkEffect(sh) ==
  IF ~sh.isConnected \/ ~sh.isInternetReachable
    THEN [sh EXCEPT !.hasError = TRUE]
  ELSE IF sh.hasError
    THEN [sh EXCEPT !.hasError = FALSE, !.retryCount = 0]
  ELSE sh

EffectDeps(sh) == <<sh.isConnected, sh.isInternetReachable, sh.hasError>>

RECURSIVE Rendered(_, _)
Rendered(old, new) ==
  IF EffectDeps(old) = EffectDeps(new) THEN new
  ELSE Rendered(new, NetworkEffect(new))

----------------------------------------------------------------------------
(* The state of the program as one record, and back.                       *)

Cur ==
  [now |-> now, config |-> config, setMaxSize |-> setMaxSize,
   timerPersist |-> timerPersist, isReady |-> isReady,
   memoryCache |-> memoryCache, cacheIndex |-> cacheIndex,
   totalHits |-> totalHits, totalMisses |-> totalMisses, store |-> store]

InstallCache(s) ==
  /\ now' = s.now
  /\ config' = s.config
  /\ setMaxSize' = s.setMaxSize
  /\ timerPersist' = s.timerPersist
  /\ isReady' = s.isReady
  /\ memoryCache' = s.memoryCache
  /\ cacheIndex' = s.cacheIndex
  /\ totalHits' = s.totalHits
  /\ totalMisses' = s.totalMisses
  /\ store' = s.store
  /\ shell' = shell

(* The state a call leaves when it ran from its first line to its return   *)
(* with no other call in between.                                          *)
Install(s) ==
  /\ InstallCache(s)
  /\ UNCHANGED <<flight, lastSet>>

(* last: the call that was made last, its key, whether it returned a       *)
(* payload / true, and which path it took (observation only; no handler    *)
(* reads it).                                                              *)
Call(op, key, ok, how) == [op |-> op, key |-> key, ok |-> ok, how |-> how]

(* answered: how many gets made while the cache was enabled returned a     *)
(* payload and how many returned absent since the counters were last zero  *)
(* (observation only; no handler reads it).                                *)
NoneAnswered == [payload |-> 0, absent |-> 0]

Answer(s, result) ==
  IF ~s.config.enabled THEN answered
  ELSE IF IsPayload(result) THEN [answered EXCEPT !.payload = @ + 1]
  ELSE [answered EXCEPT !.absent = @ + 1]

Init ==
  /\ now = 0
  /\ config = DEFAULT_CONFIG
  /\ setMaxSize = DEFAULT_CONFIG.maxSize
  /\ timerPersist = DEFAULT_CONFIG.persistToDisk
  /\ isReady = FALSE
  /\ memoryCache = <<>>
  /\ cacheIndex = {}
  /\ totalHits = 0
  /\ totalMisses = 0
  /\ store = [sk \in StoreKeys |-> Absent]
  /\ last = Call("mount", "", TRUE, "")
  /\ answered = NoneAnswered
  /\ shell = ShellInit
  /\ flight = AllIdle
  /\ lastSet = [k \in AllKeys |-> ""]

----------------------------------------------------------------------------
(* The actions: one per operation of the hook, with its inputs drawn from  *)
(* the sets given.                                                         *)

Tick(instants) ==
  /\ \E t \in instants : t > now /\ now' = t
  /\ last' = Call("tick", "", TRUE, "")
  /\ UNCHANGED <<config, setMaxSize, timerPersist, isReady, memoryCache, cacheIndex,
                 totalHits, totalMisses, store, answered, shell, flight, lastSet>>

Get(keys) ==
  /\ totalHits + totalMisses < MaxGets
  /\ \E key \in keys :
       LET r == get(Cur, key) IN
       /\ Install(r.st)
       /\ last' = Call("get", key, IsPayload(r.result), r.how)
       /\ answered' = Answer(Cur, r.result)

Set(keys, payloads, types, ttls) ==
  \E key \in keys, data \in payloads, type \in types, customTTL \in ttls :
    LET r == set(Cur, key, data, type, customTTL) IN
    /\ Install(r.st)
    /\ last' = Call("set", key, r.result,
                    IF customTTL = NoTTL THEN "default" ELSE "custom")
    /\ UNCHANGED answered

GetReadFails(keys) ==
  \E key \in keys :
    LET r == getReadFails(Cur, key) IN
    /\ r.how = "error"
    /\ answered.payload + answered.absent < MaxGets
    /\ Install(r.st)
    /\ last' = Call("get", key, IsPayload(r.result), r.how)
    /\ answered' = Answer(Cur, r.result)

SetWriteFails(keys, payloads, types) ==
  \E key \in keys, data \in payloads, type \in types, at \in {"entry", "index"} :
    LET r == setWriteFails(Cur, key, data, type, NoTTL, at) IN
    /\ config.enabled /\ config.persistToDisk
    /\ Install(r.st)
    /\ last' = Call("set", key, r.result, "error-" \o at)
    /\ UNCHANGED answered

(* setMultiple on one or two entries for distinct keys, with every choice  *)
(* of where the durable store rejects.                                     *)
SetMultiple(keys, payloads, types) ==
  \E n \in 1..2 :
    \E ks \in [1..n -> keys], fails \in [1..n -> {"none", "entry", "index"}] :
      \E data \in payloads, type \in types :
        LET entries == [i \in 1..n |-> [key |-> ks[i], data |-> data, type |-> type]]
            r == setMultiple(Cur, entries, fails)
        IN  /\ \A i, j \in 1..n : ks[i] = ks[j] => i = j
            /\ (config.enabled /\ config.persistToDisk) \/ \A i \in 1..n : fails[i] = "none"
            /\ Install(r.st)
            /\ last' = Call("setMultiple", ks[1], r.result,
                            IF \A i \in 1..n : r.each[i] THEN "all"
                            ELSE IF ~config.enabled THEN "disabled"
                            ELSE "write-failed")
            /\ UNCHANGED answered

Cleanup ==
  LET r == cleanup(Cur) IN
  /\ Install(r.st)
  /\ last' = Call("cleanup", "", r.result > 0,
                  IF ~config.enabled THEN "disabled"
                  ELSE IF Len(memoryCache) - r.result > config.maxEntries
                    THEN "overcount" ELSE "within")
  /\ UNCHANGED answered

GetStats ==
  /\ last' = Call("getStats", "", ~getStatsThrows(Cur),
                  IF getStatsThrows(Cur) THEN "throws" ELSE "")
  /\ UNCHANGED <<now, config, setMaxSize, timerPersist, isReady, memoryCache, cacheIndex,
                 totalHits, totalMisses, store, answered, shell, flight, lastSet>>

Has(keys) ==
  /\ \E key \in keys : last' = Call("has", key, has(Cur, key), "")
  /\ UNCHANGED <<now, config, setMaxSize, timerPersist, isReady, memoryCache, cacheIndex,
                 totalHits, totalMisses, store, answered, shell, flight, lastSet>>

Remove(keys) ==
  \E key \in keys :
    LET r == remove(Cur, key) IN
    /\ Install(r.st)
    /\ last' = Call("remove", key, r.result,
                    IF has(Cur, key) THEN "present" ELSE "absent")
    /\ UNCHANGED answered

Prune ==
  LET r == prune(Cur) IN
  /\ Install(r.st)
  /\ last' = Call("prune", "", r.result > 0, "")
  /\ UNCHANGED answered

Optimize ==
  LET r == optimize(Cur, config.maxSize, config.maxEntries) IN
  /\ Install(r.st)
  /\ last' = Call("optimize", "", TRUE,
                  IF SumSizes(memoryCache) > config.maxSize * MB THEN "oversize"
                  ELSE IF Len(memoryCache) > config.maxEntries THEN "overcount"
                  ELSE "within")
  /\ UNCHANGED answered

Clear ==
  /\ Install(clearAll(Cur).st)
  /\ last' = Call("clear", "", TRUE, "")
  /\ answered' = NoneAnswered

ClearType(types) ==
  \E type \in types :
    /\ Install(clearType(Cur, type).st)
    /\ last' = Call("clear", "", \E i \in 1..Len(memoryCache) :
                                   memoryCache[i].entry.type = type, type)
    /\ UNCHANGED answered

UpdateConfig(field, values) ==
  \E value \in values :
    /\ Install(updateConfig(Cur, field, value).st)
    /\ last' = Call("updateConfig", field, TRUE, "")
    /\ UNCHANGED answered

Restart ==
  /\ InstallCache(mount(Cur).st)
  /\ flight' = AllIdle
  /\ UNCHANGED lastSet
  /\ last' = Call("mount", "", TRUE, "")
  /\ answered' = NoneAnswered

InitializeCacheFails ==
  \E at \in {"index", "config"} :
    /\ ~isReady
    /\ Install(initializeCacheFails(Cur, at).st)
    /\ last' = Call("initializeCache", "", FALSE, at)
    /\ UNCHANGED answered

InitializeCache ==
  /\ ~isReady
  /\ Install(initializeCache(Cur).st)
  /\ last' = Call("initializeCache", "", TRUE, "")
  /\ UNCHANGED answered

(* The events of the page shell.  Each installs the state the handler      *)
(* leaves after the render and the effects that follow it.                 *)
ShellStep(op, ok, how, sh) ==
  /\ shell' = Rendered(shell, sh)
  /\ last' = Call(op, "", ok, how)
  /\ UNCHANGED <<now, config, setMaxSize, timerPersist, isReady, memoryCache,
                 cacheIndex, totalHits, totalMisses, store, answered, flight, lastSet>>

LoadStart == ShellStep("loadStart", TRUE, "", handleLoadStart(shell))

LoadEnd == ShellStep("loadEnd", TRUE, "", handleLoadEnd(shell))

LoadError ==
  /\ Len(shell.retries) < MaxPending
  /\ ShellStep("loadError", shell.retryCount < MAX_RETRIES /\ shell.isConnected,
               IF shell.showProgress THEN "shown" ELSE "hidden", handleError(shell))

LinkClicked == ShellStep("linkClicked", TRUE, "", showIndicator(shell))

ShouldStartLoad == ShellStep("shouldStartLoad", TRUE, "", showIndicator(shell))

LoadingTimeoutFires ==
  \E id \in shell.timers :
    ShellStep("loadingTimeout", TRUE, "", loadingTimeout(shell, id))

RetryTimeoutFires ==
  /\ shell.retryReloads < MaxReloads
  /\ \E i \in 1..Len(shell.retries) :
       ShellStep("retryTimeout", TRUE, "", retryTimeout(shell, i))

Retry == ShellStep("retry", TRUE, "", handleRetry(shell))

NetworkChange ==
  \E c \in BOOLEAN, r \in BOOLEAN :
    /\ <<c, r>> # <<shell.isConnected, shell.isInternetReachable>>
    /\ ShellStep("network", c /\ r, "",
                 [shell EXCEPT !.isConnected = c, !.isInternetReachable = r,
                               !.retryReloads = IF c /\ r THEN 0 ELSE @])

(* The calls in flight.  A caller starts a call when it has none in        *)
(* flight; the call runs to its first await, and Resume runs a suspended   *)
(* call to its next await or to its return.                                *)

(* The frames once a set has written key into the memory index.            *)
Rewritten(key) ==
  [c \in Callers |->
     IF \/ flight[c].op \in {"get", "remove"} /\ flight[c].key = key
        \/ \E i \in 1..Len(flight[c].todo) : flight[c].todo[i].key = key
       THEN [flight[c] EXCEPT !.rewritten = @ \cup {key}]
       ELSE flight[c]]

(* What last records of a step of the call f on key: whether the call      *)
(* returned, and for a get the payload it returned and whether no set      *)
(* wrote its key while it was in flight.                                   *)
Outcome(f, key, r) ==
  IF r.frame.op # "idle" THEN Call(f.op, key, FALSE, "suspended")
  ELSE IF f.op = "get"
    THEN [op |-> "get", key |-> key, ok |-> IsPayload(r.result),
          how |-> "returned", data |-> r.result.text,
          alone |-> key \notin f.rewritten]
    ELSE Call(f.op, key, TRUE, "returned")

BeginGet(keys) ==
  /\ totalHits + totalMisses < MaxGets
  /\ \E c \in Callers, key \in keys :
       LET r == getBegin(Cur, key) IN
       /\ flight[c] = Idle
       /\ InstallCache(r.st)
       /\ flight' = [flight EXCEPT ![c] = r.frame]
       /\ last' = Outcome(Frame("get", "", key), key, r)
       /\ UNCHANGED <<answered, lastSet>>

BeginSet(keys, payloads, types, ttls) ==
  \E c \in Callers, key \in keys, data \in payloads, type \in types, customTTL \in ttls :
    LET r == setBegin(Cur, key, data, type, customTTL) IN
    /\ flight[c] = Idle
    /\ InstallCache(r.st)
    /\ flight' = [(IF config.enabled THEN Rewritten(key) ELSE flight)
                    EXCEPT ![c] = r.frame]
    /\ lastSet' = IF config.enabled THEN [lastSet EXCEPT ![key] = data.text]
                                    ELSE lastSet
    /\ last' = Outcome(Frame("set", "", key), key, r)
    /\ UNCHANGED answered

BeginRemove(keys) ==
  \E c \in Callers, key \in keys :
    LET r == callRemove(Cur, Frame("remove", "", key), key) IN
    /\ flight[c] = Idle
    /\ InstallCache(r.st)
    /\ flight' = [flight EXCEPT ![c] = r.frame]
    /\ last' = Outcome(Frame("remove", "", key), key, r)
    /\ UNCHANGED <<answered, lastSet>>

BeginPrune ==
  \E c \in Callers :
    LET r == pruneBegin(Cur) IN
    /\ flight[c] = Idle
    /\ InstallCache(r.st)
    /\ flight' = [flight EXCEPT ![c] = r.frame]
    /\ last' = Outcome(Frame("prune", "", ""), r.frame.key, r)
    /\ UNCHANGED <<answered, lastSet>>

BeginOptimize ==
  \E c \in Callers :
    LET r == optimizeBegin(Cur, Frame("optimize", "", "")) IN
    /\ flight[c] = Idle
    /\ InstallCache(r.st)
    /\ flight' = [flight EXCEPT ![c] = r.frame]
    /\ last' = Outcome(Frame("optimize", "", ""), "", r)
    /\ UNCHANGED <<answered, lastSet>>

Resume ==
  \E c \in Callers :
    LET r == resume(Cur, flight[c]) IN
    /\ flight[c] # Idle
    /\ InstallCache(r.st)
    /\ flight' = [flight EXCEPT ![c] = r.frame]
    /\ last' = Outcome(flight[c], IF r.frame.op = "idle" THEN flight[c].key
                                  ELSE r.frame.key, r)
    /\ lastSet' = IF /\ flight[c].op = "remove"
                     /\ r.frame.op = "idle"
                     /\ flight[c].key \notin flight[c].rewritten
                    THEN [lastSet EXCEPT ![flight[c].key] = ""]
                    ELSE lastSet
    /\ UNCHANGED answered

(* An initialization that runs while no call is in flight.                 *)
InitializeCacheIdle ==
  /\ flight = AllIdle
  /\ InitializeCache

(* A configuration update made while nothing is cached.                    *)
UpdateConfigEmpty(field, values) ==
  /\ memoryCache = <<>>
  /\ cacheIndex = {}
  /\ UpdateConfig(field, values)

(* A configuration update made while no call is in flight.                 *)
UpdateConfigIdle(field, values) ==
  /\ flight = AllIdle
  /\ UpdateConfig(field, values)

----------------------------------------------------------------------------
(* Spec: the cache in use for html pages as the clock passes their expiry, *)
(* with the kill switch and restarts.                                      *)

MainTypes == {"html"}

Next ==
  \/ Tick(Instants)
  \/ Get(Keys)
  \/ Set(Keys, Payloads, MainTypes, {NoTTL})
  \/ Has(Keys)
  \/ Remove(Keys)
  \/ Prune
  \/ Clear
  \/ UpdateConfig("enabled", BOOLEAN)
  \/ Restart
  \/ InitializeCache

Spec == Init /\ [][Next]_vars

(* SpecTTL: set with every content type and customTTL argument, under a    *)
(* defaultTTL that differs from the table.                                 *)

TTLKeys == {KeyPool[1]}

NextTTL ==
  \/ Tick(Instants)
  \/ Set(TTLKeys, {CHOOSE p \in Payloads : TRUE}, CacheTypes, TTLChoices)
  \/ UpdateConfig("defaultTTL", {DEFAULT_CONFIG.defaultTTL, 7})
  \/ Restart
  \/ InitializeCache

SpecTTL == Init /\ [][NextTTL]_vars

(* SpecEvict: entries under a budget of 2 entries, with reads that raise   *)
(* hits, removals and restarts.                                            *)

NextEvict ==
  \/ Get(EvictKeys)
  \/ Set(EvictKeys, {CHOOSE p \in Payloads : TRUE}, MainTypes, {NoTTL})
  \/ Remove(EvictKeys)
  \/ Optimize
  \/ UpdateConfig("maxEntries", {2, DEFAULT_CONFIG.maxEntries})
  \/ Restart
  \/ InitializeCache

SpecEvict == Init /\ [][NextEvict]_vars

(* SpecSize: entries of 200002 and 900002 bytes under a budget of 1 MB,    *)
(* with reads that raise hits.                                             *)

NextSize ==
  \/ Get(SizeKeys)
  \/ Set(SizeKeys, BigPayloads, MainTypes, {NoTTL})
  \/ Optimize
  \/ UpdateConfig("maxSize", {1, DEFAULT_CONFIG.maxSize})

SpecSize == Init /\ [][NextSize]_vars

(* SpecLRU: entries of 450002 bytes with different hits under both         *)
(* budgets, 1 MB and 2 entries.                                            *)

NextLRU ==
  \/ Get(EvictKeys)
  \/ Set(EvictKeys, LRUPayloads, MainTypes, {NoTTL})
  \/ Optimize
  \/ UpdateConfig("maxSize", {1, DEFAULT_CONFIG.maxSize})
  \/ UpdateConfig("maxEntries", {2, DEFAULT_CONFIG.maxEntries})

SpecLRU == Init /\ [][NextLRU]_vars

(* SpecFail: a durable store whose reads and writes may reject, under a    *)
(* budget of 2 entries, with restarts.                                     *)

NextFail ==
  \/ Get(SizeKeys)
  \/ GetReadFails(SizeKeys)
  \/ Set(SizeKeys, {CHOOSE p \in Payloads : TRUE}, MainTypes, {NoTTL})
  \/ SetWriteFails(SizeKeys, {CHOOSE p \in Payloads : TRUE}, MainTypes)
  \/ UpdateConfig("maxEntries", {2})
  \/ Restart
  \/ InitializeCache

SpecFail == Init /\ [][NextFail]_vars

(* SpecClear: product entries (30 minutes) and category entries (1 hour),  *)
(* with the clock passing the expiry of the former, typed clears and       *)
(* prunes.                                                                 *)

ClearTypes == {"product", "category"}
ClearInstants == {0, CACHE_TTL_BY_TYPE["product"] + 1}

NextClear ==
  \/ Tick(ClearInstants)
  \/ Get(SizeKeys)
  \/ Set(SizeKeys, {CHOOSE p \in Payloads : TRUE}, ClearTypes, {NoTTL})
  \/ ClearType(ClearTypes)
  \/ Prune

SpecClear == Init /\ [][NextClear]_vars

(* SpecPersist: persistence switched off and on again around sets, reads,  *)
(* clear() and restarts.                                                   *)

NextPersist ==
  \/ Get(Keys)
  \/ Set(Keys, Payloads, MainTypes, {NoTTL})
  \/ Clear
  \/ UpdateConfig("persistToDisk", BOOLEAN)
  \/ Restart
  \/ InitializeCache

SpecPersist == Init /\ [][NextPersist]_vars

(* SpecNames: the cache used with the key "index" next to an ordinary key, *)
(* with restarts and calls of getStats.                                    *)

NameKeys == {"index", KeyPool[1]}

NextNames ==
  \/ Get(NameKeys)
  \/ GetReadFails(NameKeys)
  \/ Set(NameKeys, {CHOOSE p \in Payloads : TRUE}, MainTypes, {NoTTL})
  \/ Remove(NameKeys)
  \/ GetStats
  \/ Restart
  \/ InitializeCache

SpecNames == Init /\ [][NextNames]_vars

(* SpecTimer: html entries under an entry budget lowered to 1, the clock   *)
(* passing their expiry, the 5-minute cleanup, the kill switch and         *)
(* restarts.                                                               *)

NextTimer ==
  \/ Tick(Instants)
  \/ Set(SizeKeys, {CHOOSE p \in Payloads : TRUE}, MainTypes, {NoTTL})
  \/ Cleanup
  \/ UpdateConfig("maxEntries", {1})
  \/ UpdateConfig("enabled", BOOLEAN)
  \/ Restart
  \/ InitializeCache

SpecTimer == Init /\ [][NextTimer]_vars

(* The interval of the cleanup timer keeps firing (setInterval calls the   *)
(* callback every five minutes for as long as the hook is mounted), and    *)
(* the initialization the mount effect starts completes.                   *)
SpecTimerFair == SpecTimer /\ WF_vars(Cleanup) /\ WF_vars(InitializeCache)

(* SpecShell: the page shell under the events of the embedded browser,     *)
(* its timers, the network and the retry button.  SpecShellFair adds that  *)
(* a pending loading timeout fires in the end.                             *)

NextShell ==
  \/ LoadStart
  \/ LoadEnd
  \/ LoadError
  \/ LinkClicked
  \/ ShouldStartLoad
  \/ LoadingTimeoutFires
  \/ RetryTimeoutFires
  \/ Retry
  \/ NetworkChange

SpecShell == Init /\ [][NextShell]_vars

SpecShellFair == SpecShell /\ WF_vars(LoadingTimeoutFires)

----------------------------------------------------------------------------
(* SpecReserved: entries cached under the keys "index" and "config",       *)
(* with a configuration persisted, across restarts.                        *)

ReservedKeys == {"index", "config"}

NextReserved ==
  \/ Get(ReservedKeys)
  \/ Set(ReservedKeys, Payloads, {"html"}, {NoTTL})
  \/ Remove(ReservedKeys)
  \/ UpdateConfig("maxSize", {100})
  \/ Restart
  \/ InitializeCache

SpecReserved == Init /\ [][NextReserved]_vars

----------------------------------------------------------------------------
(* SpecTyped: products and categories cached, read and cleared by type     *)
(* across restarts.                                                        *)

NextTyped ==
  \/ Get(Keys)
  \/ Set(Keys, Payloads, ClearTypes, {NoTTL})
  \/ ClearType(ClearTypes)
  \/ Restart
  \/ InitializeCache

SpecTyped == Init /\ [][NextTyped]_vars

----------------------------------------------------------------------------
(* SpecFlight: reads and writes that overlap.  Two callers get and set one *)
(* html page while the clock passes its expiry and the application         *)
(* restarts.                                                               *)

FlightInstants == {0, 900001}

NextFlight ==
  \/ Tick(FlightInstants)
  \/ BeginGet(Keys)
  \/ BeginSet(Keys, Payloads, {"html"}, {NoTTL})
  \/ Resume
  \/ Restart
  \/ InitializeCache

SpecFlight == Init /\ [][NextFlight]_vars

----------------------------------------------------------------------------
(* SpecPasses: passes that overlap with writes.  Two callers set html      *)
(* pages, prune and optimize while the clock passes the expiry of the      *)
(* pages, and maxEntries is lowered to 1.                                  *)

NextPasses ==
  \/ Tick(FlightInstants)
  \/ BeginSet(SizeKeys, Payloads, {"html"}, {NoTTL})
  \/ BeginPrune
  \/ BeginOptimize
  \/ Resume
  \/ UpdateConfigIdle("maxEntries", {1})

SpecPasses == Init /\ [][NextPasses]_vars

----------------------------------------------------------------------------
(* SpecReads: html pages set and read, from memory and after a restart     *)
(* from the durable store, while the clock passes their expiry.            *)

NextReads ==
  \/ Tick(FlightInstants)
  \/ Get(SizeKeys)
  \/ Set(SizeKeys, {CHOOSE p \in Payloads : TRUE}, {"html"}, {NoTTL})
  \/ Restart
  \/ InitializeCache

SpecReads == Init /\ [][NextReads]_vars

----------------------------------------------------------------------------
(* SpecRemoves: removes that overlap with reads.  Two callers get, set and *)
(* remove one html page across restarts.                                   *)

NextRemoves ==
  \/ BeginGet(Keys)
  \/ BeginSet(Keys, {CHOOSE p \in Payloads : TRUE}, {"html"}, {NoTTL})
  \/ BeginRemove(Keys)
  \/ Resume
  \/ Restart
  \/ InitializeCacheIdle

SpecRemoves == Init /\ [][NextRemoves]_vars

----------------------------------------------------------------------------
(* SpecBudget: budgets of 1 entry or 1 MB set while the cache is empty,    *)
(* then pages of 200002 and 900002 bytes set (with writes that fail), read *)
(* and removed across restarts.                                            *)

NextBudget ==
  \/ UpdateConfigEmpty("maxEntries", {1})
  \/ UpdateConfigEmpty("maxSize", {1})
  \/ Get(SizeKeys)
  \/ Set(SizeKeys, BigPayloads, {"html"}, {NoTTL})
  \/ SetWriteFails(SizeKeys, {CHOOSE p \in BigPayloads : TRUE}, {"html"})
  \/ Remove(SizeKeys)
  \/ Restart
  \/ InitializeCache

SpecBudget == Init /\ [][NextBudget]_vars

(* SpecMulti: batches of writes on a cache that may be disabled or not     *)
(* persisting, over a durable store whose writes may reject, with reads    *)
(* and restarts.                                                           *)

NextMulti ==
  \/ SetMultiple(SizeKeys, {CHOOSE p \in Payloads : TRUE}, {"html"})
  \/ Get(SizeKeys)
  \/ UpdateConfig("enabled", BOOLEAN)
  \/ UpdateConfig("persistToDisk", BOOLEAN)
  \/ Restart
  \/ InitializeCache

SpecMulti == Init /\ [][NextMulti]_vars

(* SpecInit: mounts whose initialization may fail on either record, with   *)
(* writes and configuration changes before and after it.                   *)

NextInit ==
  \/ Set(SizeKeys, {CHOOSE p \in Payloads : TRUE}, {"html"}, {NoTTL})
  \/ Get(SizeKeys)
  \/ UpdateConfig("maxSize", {100})
  \/ Restart
  \/ InitializeCache
  \/ InitializeCacheFails

SpecInit == Init /\ [][NextInit]_vars

----------------------------------------------------------------------------
(* The claims.  Each formula is evaluated in every reachable state; a      *)
(* formula about what a call does applies the call's handler to the        *)
(* current state.                                                          *)

(* The entry the cache holds for a key: the memory entry if there is one,  *)
(* else the entry record of the durable store.                             *)
HasStored(s, key) ==
  MemHas(s.memoryCache, key) \/ s.store[getStorageKey(key)] # Absent

Stored(s, key) ==
  IF MemHas(s.memoryCache, key)
    THEN MemGet(s.memoryCache, key)
    ELSE ParseEntry(s.store[getStorageKey(key)])

(* C1: whenever now > expiresAt of the entry stored for a key, in memory   *)
(* or only in the durable store, swept or not, get(key) returns absent.    *)
C1_ExpiredIsAbsent ==
  \A key \in Keys :
    (HasStored(Cur, key) /\ now > Stored(Cur, key).expiresAt)
      => get(Cur, key).result = Null

(* A get found the entry record of the durable store expired.              *)
C1_Witness ==
  last.op = "get" /\ last.how = "expired-disk" /\ ~last.ok /\ config.enabled

(* C2 (as stated): with the cache enabled, set(key, v, type) followed      *)
(* immediately by get(key, type) returns v.                                *)
C2_RoundTrip ==
  config.enabled =>
    \A key \in EvictKeys, data \in Payloads, type \in MainTypes :
      get(set(Cur, key, data, type, NoTTL).st, key).result = data

(* C3 (as stated): with persistToDisk true, after set(k, v) has returned   *)
(* true and the process restarted (memory emptied, key index reloaded,     *)
(* ready), get(k) returns v, counts as a hit, and promotes the entry into  *)
(* the memory index.                                                       *)
C3_PersistsAcrossRestart ==
  (config.enabled /\ config.persistToDisk) =>
    \A key \in EvictKeys, data \in Payloads :
      LET w == set(Cur, key, data, "html", NoTTL)
          s2 == initializeCache(mount(w.st).st).st
          g == get(s2, key)
      IN  (w.result /\ s2.isReady /\ s2.config.enabled /\ s2.config.persistToDisk)
            => /\ g.result = data
               /\ g.st.totalHits = 1
               /\ MemHas(g.st.memoryCache, key)

(* The per-type TTLs the claim lists, in milliseconds.                     *)
ListedTTL(type) ==
  CASE type = "html" -> 900000
    [] type = "api" -> 600000
    [] type = "product" -> 1800000
    [] type = "category" -> 3600000
    [] type \in {"image", "script", "style"} -> 86400000
    [] type = "resource" -> 3600000

(* C4: for each of the 8 content types, set without a customTTL creates an *)
(* entry (in memory and in the durable store) whose expiresAt - timestamp  *)
(* is the type's listed value, whatever config.defaultTTL is.              *)
C4_PerTypeTTL ==
  \A key \in TTLKeys, data \in Payloads, type \in CacheTypes :
    LET r == set(Cur, key, data, type, NoTTL)
        e == MemGet(r.st.memoryCache, key)
        d == ParseEntry(r.st.store[getStorageKey(key)])
    IN  r.result =>
          /\ MemHas(r.st.memoryCache, key)
          /\ e.type = type
          /\ e.expiresAt - e.timestamp = ListedTTL(type)
          /\ d.expiresAt - d.timestamp = ListedTTL(type)

(* A set without customTTL has just stored a category entry with a life of *)
(* one hour while config.defaultTTL is 7 ms.                               *)
C4_Witness ==
  /\ last.op = "set" /\ last.how = "default" /\ last.ok
  /\ config.defaultTTL = 7
  /\ MemHas(memoryCache, last.key)
  /\ LET e == MemGet(memoryCache, last.key)
     IN  e.type = "category" /\ e.timestamp = now /\ e.expiresAt - e.timestamp = 3600000

(* C5 (as stated): for every content type and every supplied customTTL c,  *)
(* set(key, data, type, c) creates an entry with expiresAt - timestamp = c. *)
C5_CustomTTLOverrides ==
  \A key \in TTLKeys, data \in Payloads, type \in CacheTypes,
     customTTL \in TTLChoices \ {NoTTL} :
    LET r == set(Cur, key, data, type, customTTL)
        e == MemGet(r.st.memoryCache, key)
    IN  r.result => e.expiresAt - e.timestamp = customTTL[1]

(* C6 (as stated): every entry of the memory index and every entry record  *)
(* of the durable store has expiresAt >= timestamp.                        *)
C6_ExpiryNotBeforeCreation ==
  /\ \A i \in 1..Len(memoryCache) :
       memoryCache[i].entry.expiresAt >= memoryCache[i].entry.timestamp
  /\ \A key \in AllKeys :
       store[getStorageKey(key)] # Absent =>
         LET d == ParseEntry(store[getStorageKey(key)])
         IN  d.expiresAt >= d.timestamp

(* C7: while config.enabled is false, set returns false and changes        *)
(* nothing, and get returns absent for every key, stored before or not,    *)
(* and changes nothing (no hits, no counters).                             *)
C7_DisabledIsNoOp ==
  ~config.enabled =>
    \A key \in Keys :
      /\ \A data \in Payloads, type \in MainTypes :
           set(Cur, key, data, type, NoTTL) = [st |-> Cur, result |-> FALSE]
      /\ get(Cur, key).result = Null
      /\ get(Cur, key).st = Cur

(* A get on the disabled cache returned absent for a key whose unexpired   *)
(* entry is in the memory index.                                           *)
C7_Witness ==
  /\ ~config.enabled
  /\ last.op = "get" /\ last.how = "disabled" /\ ~last.ok
  /\ MemHas(memoryCache, last.key)
  /\ now <= MemGet(memoryCache, last.key).expiresAt

(* What the cache holds for a key besides the state of the other keys.     *)
KeyView(s, key) ==
  [inMemory |-> MemHas(s.memoryCache, key),
   entry |-> IF MemHas(s.memoryCache, key)
               THEN <<MemGet(s.memoryCache, key)>> ELSE <<>>,
   indexed |-> key \in s.cacheIndex,
   record |-> s.store[getStorageKey(key)]]

(* C8: remove(key) returns true, leaves every other key's entry, index     *)
(* membership and durable record unchanged, a following get(key) returns   *)
(* absent and has(key) is false; a second remove(key) changes nothing and  *)
(* returns true again.  This holds for absent and present keys alike.      *)
C8_RemoveIdempotent ==
  \A key \in EvictKeys :
    LET r == remove(Cur, key) IN
    /\ r.result = TRUE
    /\ \A other \in AllKeys \ {key} : KeyView(r.st, other) = KeyView(Cur, other)
    /\ r.st.totalHits = totalHits /\ r.st.totalMisses = totalMisses
    /\ get(r.st, key).result = Null
    /\ ~has(r.st, key)
    /\ remove(r.st, key) = r

(* remove has just returned true for a key the cache did not hold, while   *)
(* it holds another key.                                                   *)
C8_Witness ==
  /\ last.op = "remove" /\ last.how = "absent" /\ last.ok
  /\ ~has(Cur, last.key)
  /\ memoryCache # <<>>

(* C9: if the aggregate size of the memory entries exceeds maxSize MB when *)
(* optimize() starts, it is at most 0.8 * maxSize MB when optimize() ends. *)
C9_SizeEviction ==
  SumSizes(memoryCache) > config.maxSize * MB =>
    5 * SumSizes(optimize(Cur, config.maxSize, config.maxEntries).st.memoryCache)
      <= 4 * config.maxSize * MB

(* optimize has just run on an oversized cache and stopped with an entry   *)
(* left.                                                                   *)
C9_Witness ==
  /\ last.op = "optimize" /\ last.how = "oversize"
  /\ memoryCache # <<>>
  /\ 5 * SumSizes(memoryCache) <= 4 * config.maxSize * MB

(* C10: if the memory index holds more than maxEntries entries when        *)
(* optimize() starts, it holds at most 0.8 * maxEntries when it ends.      *)
C10_CountEviction ==
  Len(memoryCache) > config.maxEntries =>
    5 * Len(optimize(Cur, config.maxSize, config.maxEntries).st.memoryCache)
      <= 4 * config.maxEntries

(* optimize has just run on a cache over its entry budget of 2 and left    *)
(* one entry.                                                              *)
C10_Witness ==
  /\ last.op = "optimize" /\ last.how = "overcount"
  /\ config.maxEntries = 2
  /\ Len(memoryCache) = 1

(* Every entry of before that is missing from after had at most the hits   *)
(* of every entry of before that is still in after.                        *)
LeastUsedFirst(before, after) ==
  \A i, j \in 1..Len(before) :
    (~MemHas(after, before[i].key) /\ MemHas(after, before[j].key))
      => before[i].entry.hits <= before[j].entry.hits

(* C11: in each pass of optimize(), the size pass and the count pass, no   *)
(* entry is evicted while an entry with strictly fewer hits survives that  *)
(* pass.  (The size pass alone is optimize under an entry budget the       *)
(* cache is within.)                                                       *)
C11_LeastUsedFirst ==
  LET sized == optimize(Cur, config.maxSize, Len(memoryCache)).st
      counted == optimize(Cur, config.maxSize, config.maxEntries).st
  IN  /\ LeastUsedFirst(memoryCache, sized.memoryCache)
      /\ LeastUsedFirst(sized.memoryCache, counted.memoryCache)
      /\ LeastUsedFirst(memoryCache, counted.memoryCache)

(* optimize has just evicted from a cache over a budget and left exactly   *)
(* one entry, the one that has every hit counted so far: the evicted       *)
(* entries had none.                                                       *)
C11_Witness ==
  /\ last.op = "optimize" /\ last.how \in {"oversize", "overcount"}
  /\ Len(memoryCache) = 1
  /\ totalHits > 0
  /\ memoryCache[1].entry.hits = totalHits

(* C12 (as stated): with h the gets that returned a payload and m the gets *)
(* that returned absent, made while the cache was enabled since the        *)
(* counters were zero, the hitRate of getStats() is 100 * h / (h + m), and *)
(* 0 when h + m = 0.                                                       *)
C12_HitRate ==
  LET r == getStats(Cur).hitRate
      h == answered.payload
      m == answered.absent
  IN  IF h + m = 0 THEN r.num = 0
      ELSE r.num * (h + m) = 100 * h * r.den

(* C13: clear(T) leaves no memory entry of type T (byType[T].count = 0),   *)
(* leaves every key whose memory entry is of another type and the counts   *)
(* and sizes of the other types as they were, and leaves the hit and miss  *)
(* counters as they were.                                                  *)
C13_TypedClear ==
  \A type \in CacheTypes :
    LET r == clearType(Cur, type).st
        before == getStats(Cur)
        after == getStats(r)
    IN  /\ after.byType[type].count = 0
        /\ \A other \in CacheTypes \ {type} :
             after.byType[other] = before.byType[other]
        /\ \A key \in AllKeys :
             (MemHas(memoryCache, key) /\ MemGet(memoryCache, key).type # type)
               => KeyView(r, key) = KeyView(Cur, key)
        /\ r.totalHits = totalHits /\ r.totalMisses = totalMisses
        /\ after.hitRate = before.hitRate

(* clear("product") has just removed an entry and left a category entry,   *)
(* with a hit counted.                                                     *)
C13_Witness ==
  /\ last.op = "clear" /\ last.how = "product" /\ last.ok
  /\ Len(memoryCache) = 1
  /\ memoryCache[1].entry.type = "category"
  /\ totalHits > 0

(* C14 (as stated): after clear() without a type the memory index is       *)
(* empty, the key index is empty, no key of the durable store that carries *)
(* the cache prefix holds an entry, and both counters are zero, whatever   *)
(* persistToDisk is.                                                       *)
C14_ClearWipesAll ==
  LET r == clearAll(Cur).st IN
  /\ r.memoryCache = <<>>
  /\ r.cacheIndex = {}
  /\ \A key \in AllKeys : r.store[getStorageKey(key)] = Absent
  /\ r.totalHits = 0 /\ r.totalMisses = 0

(* C15: has(key) is true exactly when the key is in the memory index or in *)
(* the key index, whatever the expiry of its entry and whatever            *)
(* config.enabled is, and a call of has changes nothing.                   *)
(* (That it can be true while get returns absent is the witness.)          *)
C15_HasIgnoresExpiry ==
  /\ [](\A key \in Keys :
          has(Cur, key) <=> (MemHas(memoryCache, key) \/ key \in cacheIndex))
  /\ [][last'.op = "has" =>
          /\ Cur' = Cur
          /\ last'.ok <=> (MemHas(memoryCache, last'.key) \/ last'.key \in cacheIndex)]_vars

(* has has just returned true for a key whose entry has expired, for which *)
(* get returns absent.                                                     *)
C15_Witness ==
  /\ last.op = "has" /\ last.ok
  /\ config.enabled
  /\ HasStored(Cur, last.key)
  /\ now > Stored(Cur, last.key).expiresAt
  /\ get(Cur, last.key).result = Null

(* C16: prune() removes exactly the memory entries with now > expiresAt,   *)
(* from the memory index, the key index and (persisting) the durable       *)
(* store, leaves every other key as it was, and returns the number of      *)
(* entries it removed.                                                     *)
C16_PruneExact ==
  LET r == prune(Cur)
      expired == {key \in AllKeys :
                    /\ MemHas(memoryCache, key)
                    /\ now > MemGet(memoryCache, key).expiresAt}
  IN  /\ \A key \in expired :
           /\ ~MemHas(r.st.memoryCache, key)
           /\ key \notin r.st.cacheIndex
           /\ config.persistToDisk => r.st.store[getStorageKey(key)] = Absent
      /\ \A key \in AllKeys \ expired : KeyView(r.st, key) = KeyView(Cur, key)
      /\ r.result = Cardinality(expired)
      /\ r.st.totalHits = totalHits /\ r.st.totalMisses = totalMisses

(* prune has just removed an expired entry and left an unexpired one in    *)
(* the memory index.                                                       *)
C16_Witness ==
  /\ last.op = "prune" /\ last.ok
  /\ Len(memoryCache) = 1
  /\ now > CACHE_TTL_BY_TYPE["product"]
  /\ now <= memoryCache[1].entry.expiresAt

(* The sum of f[x] over the x of a finite set.                             *)
RECURSIVE SumOver(_, _)
SumOver(f, S) ==
  IF S = {} THEN 0
  ELSE LET x == CHOOSE y \in S : TRUE IN f[x] + SumOver(f, S \ {x})

(* C20 (as stated): the byType map of getStats() has all 8 content types,  *)
(* its counts sum to totalEntries (the size of the memory index), and its  *)
(* sizes sum to the totalSize reported.                                    *)
C20_StatsSumToTotals ==
  LET st == getStats(Cur) IN
  /\ DOMAIN st.byType = CacheTypes
  /\ st.totalEntries = Len(memoryCache)
  /\ SumOver([ty \in CacheTypes |-> st.byType[ty].count], CacheTypes) = st.totalEntries
  /\ SumOver([ty \in CacheTypes |-> st.byType[ty].size], CacheTypes) * st.totalSize.den
       = st.totalSize.num

(* C20 (amended): the byType map of getStats() has all 8 content types,    *)
(* its counts sum to totalEntries, and its sizes, which are in bytes, sum  *)
(* to 1048576 times the totalSize reported, which is in MB.                *)
C20_StatsSumToTotalBytes ==
  LET st == getStats(Cur) IN
  /\ DOMAIN st.byType = CacheTypes
  /\ st.totalEntries = Len(memoryCache)
  /\ SumOver([ty \in CacheTypes |-> st.byType[ty].count], CacheTypes) = st.totalEntries
  /\ SumOver([ty \in CacheTypes |-> st.byType[ty].size], CacheTypes) * st.totalSize.den
       = st.totalSize.num * MB

(* The memory index holds a product entry and a category entry.            *)
C20_Witness ==
  /\ last.op = "set"
  /\ getStats(Cur).byType["product"].count = 1
  /\ getStats(Cur).byType["category"].count = 1
  /\ getStats(Cur).totalBytes > 0

(* Arguments of updateConfig: no field, one field, several fields.         *)
Partials ==
  {<<>>,
   "enabled" :> FALSE,
   "defaultTTL" :> 7,
   "maxEntries" :> 2 @@ "maxSize" :> 1,
   "persistToDisk" :> FALSE @@ "enabled" :> TRUE @@ "defaultTTL" :> DEFAULT_CONFIG.defaultTTL}

(* C19: updateConfig(partial) makes config the previous config with        *)
(* exactly the fields of partial replaced, and persists that record; the   *)
(* configuration loaded at the next startup is the defaults overridden by  *)
(* the persisted record, hence the configuration updateConfig left.        *)
C19_ConfigMergePersist ==
  \A partial \in Partials :
    LET u == updateConfigWith(Cur, partial).st
        saved == ParseConfig(u.store[STORAGE_CONFIG])
        loaded == initializeCache(mount(u).st).st.config
    IN  /\ DOMAIN u.config = DOMAIN config
        /\ \A f \in DOMAIN config :
             u.config[f] = IF f \in DOMAIN partial THEN partial[f] ELSE config[f]
        /\ saved = u.config
        /\ \A f \in DOMAIN DEFAULT_CONFIG : loaded[f] = saved[f]
        /\ loaded = u.config

(* After updateConfig({defaultTTL: 7}) and a restart, initializeCache has  *)
(* just loaded the persisted configuration, which differs from the         *)
(* defaults in that field only.                                            *)
C19_Witness ==
  /\ last.op = "initializeCache"
  /\ config.defaultTTL = 7
  /\ config = [DEFAULT_CONFIG EXCEPT !.defaultTTL = 7]
  /\ config = ParseConfig(store[STORAGE_CONFIG])

(* The state with persistence switched off in the configuration that set   *)
(* reads.                                                                  *)
MemoryOnly(s) == [s EXCEPT !.config.persistToDisk = FALSE]

(* C18 (as stated): when a write to the durable store fails during set,    *)
(* the new entry stays in the memory index, a get that follows returns it, *)
(* and the result of set and the memory index and key index it leaves      *)
(* (after the maxEntries check) are those of the same set run with         *)
(* persistToDisk = false.                                                  *)
C18_WriteFailureIsMemoryOnly ==
  (config.enabled /\ config.persistToDisk) =>
    \A key \in SizeKeys, data \in Payloads, at \in {"entry", "index"} :
      LET f == setWriteFails(Cur, key, data, "html", NoTTL, at)
          m == set(MemoryOnly(Cur), key, data, "html", NoTTL)
      IN  /\ MemHas(f.st.memoryCache, key)
          /\ get(f.st, key).result = data
          /\ f.result = m.result
          /\ f.st.memoryCache = m.st.memoryCache
          /\ f.st.cacheIndex = m.st.cacheIndex

(* C17 (as stated): no operation of the cache propagates an error to its   *)
(* caller, whether calls of the durable store fail or not: the call made   *)
(* last did not throw, and getStats() called now would not.  (get, set,    *)
(* remove, clear, optimize and initializeCache catch what their bodies     *)
(* throw, so a failure shows in their result; getStats does not.)          *)
C17_NothingThrows ==
  /\ last.how # "throws"
  /\ ~getStatsThrows(Cur)

(* C21 (as stated): the cleanup that runs every 5 minutes while the cache  *)
(* is enabled leaves no expired entry in the memory index and, when the    *)
(* entries left are over the size or count limit, removes the least used   *)
(* of them: afterwards the memory index is within both limits.             *)
C21_CleanupPrunesAndEvicts ==
  config.enabled =>
    LET c == cleanup(Cur).st IN
    /\ \A i \in 1..Len(c.memoryCache) : ~Expired(c, c.memoryCache[i].entry)
    /\ Len(c.memoryCache) <= config.maxEntries
    /\ SumSizes(c.memoryCache) <= config.maxSize * MB

(* C22 (as stated): a load error schedules a reload, after 2 s, 4 s or     *)
(* 8 s, only while fewer than 3 retries were made since the last           *)
(* successful load and the network is connected, and otherwise reports     *)
(* through onError; the retry timeouts make at most 3 reloads between two  *)
(* load ends.                                                              *)
C22_RetryLimit ==
  /\ shell.retryReloads <= MAX_RETRIES
  /\ \A i \in 1..Len(shell.retries) : shell.retries[i] \in {2000, 4000, 8000}
  /\ (last.op = "loadError" /\ ~last.ok) => shell.reported

(* C23: whenever the progress indicator is shown exactly one loading       *)
(* timeout is pending, never more than one is pending, and an indicator    *)
(* that is shown is hidden again (by load end, load error or the timeout). *)
C23_IndicatorNotStuck ==
  /\ [](shell.showProgress => Cardinality(shell.timers) = 1)
  /\ [](Cardinality(shell.timers) <= 1)
  /\ (shell.showProgress ~> ~shell.showProgress)

(* The loading timeout has just hidden the indicator: no timeout is        *)
(* pending and the ref still holds the id of the one that fired.           *)
C23_Witness ==
  /\ last.op = "loadingTimeout"
  /\ ~shell.showProgress /\ ~shell.loading
  /\ shell.timers = {}
  /\ shell.loadingTimeoutRef # 0

----------------------------------------------------------------------------
(* C24 (as stated): read-your-writes.  Once set(k, v) has written the      *)
(* memory index, a get(k) that returns a payload returns v, until the next *)
(* set of k: the get that returned last, if it returned a payload and no   *)
(* set wrote its key while it was in flight, returned the payload its key  *)
(* was last set to, whatever other calls were suspended meanwhile.         *)
C24_ReadYourWrites ==
  (/\ last.op = "get"
   /\ last.how = "returned"
   /\ last.ok
   /\ last.alone)
    => last.data = lastSet[last.key]

(* C25 (as stated): a prune or optimize pass never deletes an entry that   *)
(* was written after the pass took its scan.  When a pass goes on to the   *)
(* next key of its list and a set has written that key since the scan,     *)
(* the step leaves the key in the memory index.                            *)
C25_PassSparesLaterWrites ==
  [][\A c \in Callers :
       (/\ flight[c].todo # <<>>
        /\ flight'[c].op = flight[c].op
        /\ flight'[c].pass = flight[c].pass
        /\ flight'[c].todo = Tail(flight[c].todo)
        /\ Head(flight[c].todo).key \in flight[c].rewritten)
         => MemHas(memoryCache', Head(flight[c].todo).key)]_vars

(* C26 (as stated): with persistToDisk true and no failure of the durable  *)
(* store, whenever no call is in flight every key of the memory index has  *)
(* an entry record in the durable store with the data, timestamp and       *)
(* expiresAt of the memory entry.                                          *)
C26_MemoryMatchesStore ==
  (flight = AllIdle /\ config.persistToDisk) =>
    \A i \in 1..Len(memoryCache) :
      LET e == memoryCache[i].entry
          j == store[getStorageKey(memoryCache[i].key)]
      IN  /\ j # Absent
          /\ ParseEntry(j).data = e.data
          /\ ParseEntry(j).timestamp = e.timestamp
          /\ ParseEntry(j).expiresAt = e.expiresAt

(* The keys the persisted index record lists; none when there is no record. *)
Listed(s) ==
  IF s.store[STORAGE_INDEX].kind = "index" THEN s.store[STORAGE_INDEX].keys ELSE {}

(* C27 (as stated): with persistToDisk true, whenever no call is in flight *)
(* (initialization included), the persisted key-index record equals the    *)
(* in-memory key index and lists exactly the keys that have an entry       *)
(* record in the durable store.                                            *)
C27_IndexInSync ==
  (flight = AllIdle /\ isReady /\ config.persistToDisk) =>
    /\ Listed(Cur) = cacheIndex
    /\ Listed(Cur) = {k \in AllKeys : store[getStorageKey(k)] # Absent}

(* C28 (as stated): the durable key of an entry differs from the keys of   *)
(* the persisted index and of the persisted configuration, so a set or a   *)
(* remove of an entry leaves the configuration record as it was, and the   *)
(* entry record after a set that persists is the entry that was set (the   *)
(* write of the index record after it went to another key).                *)
C28_KeysAreNamespaced ==
  [][(last'.op \in {"set", "remove"} /\ config.enabled /\ config.persistToDisk) =>
       /\ store'[STORAGE_CONFIG] = store[STORAGE_CONFIG]
       /\ (last'.op = "set" /\ last'.ok) =>
            store'[getStorageKey(last'.key)] =
              StringifyEntry(MemGet(memoryCache', last'.key))]_vars

(* C29 (as stated): after clear(type) has resolved, get returns absent for *)
(* every key whose entry was stored with that type, in the memory index or *)
(* only in the durable store: right after a clear(type), a get of any key  *)
(* that returns a payload returns it from an entry of another type.        *)
C29_TypedClearReachesStore ==
  (last.op = "clear" /\ last.how \in CacheTypes) =>
    \A key \in Keys :
      IsPayload(get(Cur, key).result) => Stored(Cur, key).type # last.how

(* An expired entry is physically present for the key: in the memory index *)
(* or, if not there, as an entry record of the durable store.              *)
ExpiredPresent(key) ==
  HasStored(Cur, key) /\ Expired(Cur, Stored(Cur, key))

(* C30 (as stated): while the cache stays enabled and the periodic timer   *)
(* keeps firing, every entry whose expiresAt has passed is eventually      *)
(* removed from the memory index and the durable store, read or not: an    *)
(* expired entry that is present leads to a state where it is no longer    *)
(* present (or the cache has been disabled).                               *)
C30_ExpiredEventuallySwept ==
  \A key \in SizeKeys :
    (config.enabled /\ ExpiredPresent(key))
      ~> (~config.enabled \/ ~ExpiredPresent(key))

----------------------------------------------------------------------------
(* The entries the memory index holds for a key.                           *)
EntriesFor(m, key) == {i \in 1..Len(m) : m[i].key = key}

(* C31 (as stated): set on a key that already has an entry replaces it:    *)
(* afterwards exactly one entry exists for the key, with the new data,     *)
(* type, size, timestamp and expiry and hits = 0, whatever hits the        *)
(* previous entry had.                                                     *)
C31_SetReplaces ==
  config.enabled =>
    \A key \in EvictKeys, data \in Payloads, type \in MainTypes :
      MemHas(memoryCache, key) =>
        LET after == set(Cur, key, data, type, NoTTL).st.memoryCache
        IN  /\ Cardinality(EntriesFor(after, key)) = 1
            /\ MemGet(after, key) = NewEntry(Cur, data, type, NoTTL)

(* C32: a get that returns a payload changes only the hits of the entry it *)
(* returns (one more) and the global hit counter.  The entry otherwise     *)
(* (data, timestamp, expiresAt, size, type), the entries of the other      *)
(* keys, the key index, the durable store, the miss counter and the        *)
(* configuration are as before; a get that reads the entry from the        *)
(* durable store puts it into the memory index.                            *)
C32_GetOnlyCountsHit ==
  \A key \in SizeKeys :
    LET r == get(Cur, key) IN
    IsPayload(r.result) =>
      /\ MemHas(r.st.memoryCache, key)
      /\ MemGet(r.st.memoryCache, key) = [Stored(Cur, key) EXCEPT !.hits = @ + 1]
      /\ r.st.totalHits = totalHits + 1
      /\ r.st.totalMisses = totalMisses
      /\ \A other \in SizeKeys \ {key} :
            /\ MemHas(r.st.memoryCache, other) = MemHas(memoryCache, other)
            /\ MemHas(memoryCache, other) =>
                 MemGet(r.st.memoryCache, other) = MemGet(memoryCache, other)
      /\ r.st.cacheIndex = cacheIndex
      /\ r.st.store = store
      /\ r.st.config = config

(* A get has just returned the payload of an entry it read from the        *)
(* durable store, with another entry in the memory index.                  *)
C32_Witness ==
  /\ last.op = "get" /\ last.ok /\ last.how = "disk"
  /\ Len(memoryCache) >= 2
  /\ MemGet(memoryCache, last.key).hits = 1

(* C33 (as stated): after remove(k) has returned, get(k) returns absent    *)
(* and has(k) is false until the next set(k), also when a get(k) was       *)
(* suspended on its read of the durable store when the remove started: a   *)
(* key that was never set, or whose remove has returned with no set since, *)
(* is in neither index, and a get of it made now returns absent.           *)
C33_RemovedStaysRemoved ==
  \A key \in Keys :
    lastSet[key] = "" =>
      /\ ~has(Cur, key)
      /\ get(Cur, key).result = Null

(* C34 (as stated): clear(), with or without a type, leaves the persisted  *)
(* configuration record as it was, so the configuration loaded after a     *)
(* clear and a restart is the one loaded after the restart alone.          *)
C34_ClearKeepsConfig ==
  \A r \in {clearAll(Cur).st} \cup {clearType(Cur, type).st : type \in CacheTypes} :
    /\ r.store[STORAGE_CONFIG] = store[STORAGE_CONFIG]
    /\ initializeCache(mount(r).st).st.config
         = initializeCache(mount(Cur).st).st.config

(* C35 (as stated): whenever no call is in flight the memory index holds   *)
(* at most maxEntries entries and at most maxSize MB, after any sequence   *)
(* of set, get, remove, restarts and failing writes.                       *)
C35_BudgetsAtRest ==
  flight = AllIdle =>
    /\ Len(memoryCache) <= config.maxEntries
    /\ SumSizes(memoryCache) <= config.maxSize * MB

(* C36: when the aggregate size is at most maxSize MB and the entry count  *)
(* at most maxEntries, optimize() removes nothing: memory index, key       *)
(* index, durable store and the hit and miss counters are what they were.  *)
C36_OptimizeWithinIsNoop ==
  (/\ SumSizes(memoryCache) <= config.maxSize * MB
   /\ Len(memoryCache) <= config.maxEntries) =>
    LET r == optimize(Cur, config.maxSize, config.maxEntries).st
    IN  /\ r.memoryCache = memoryCache
        /\ r.cacheIndex = cacheIndex
        /\ r.store = store
        /\ r.totalHits = totalHits
        /\ r.totalMisses = totalMisses

(* optimize() has run on a memory index filled to the count budget and     *)
(* above 80% of the size budget, and returned with both entries in place.  *)
C36_Witness ==
  /\ last.op = "optimize"
  /\ last.how = "within"
  /\ Len(memoryCache) = config.maxEntries
  /\ Len(memoryCache) = 2
  /\ 5 * SumSizes(memoryCache) > 4 * config.maxSize * MB
  /\ SumSizes(memoryCache) <= config.maxSize * MB

(* C37: setMultiple returns true if and only if every one of its sets      *)
(* returned true; it returns false when the cache is disabled or when the  *)
(* write of an entry failed.                                               *)
C37_SetMultipleReportsFailure ==
  last.op = "setMultiple" => (last.ok <=> last.how = "all")

====
